---- MODULE Spec2Model ----
(***************************************************************************)
(* Model of the comment subsystem of comment-app:                          *)
(*   backend/src/modules/comments/comments.service.ts  (CommentsService)   *)
(*   backend/src/modules/comments/entities/comment.entity.ts (Comment)     *)
(*                                                                         *)
(* The store is the `comments` table, one row per comment, in insertion    *)
(* order; the row at position i has id i (the uuid of the source is an     *)
(* opaque unique key).  Time is the wall clock in minutes, observed every  *)
(* TickStep minutes.  A nullable column is a sequence of length <= 1:      *)
(* Null is <<>>, a set value v is <<v>>.                                   *)
(*                                                                         *)
(* create() awaits between its parent lookup, its counter write, its row   *)
(* save and its notification call, so each of these is one step and the    *)
(* steps of several requests interleave.  The requests in flight are a bag *)
(* of records, one per request, holding the locals of the handler.         *)
(***************************************************************************)
EXTENDS Integers, Sequences, FiniteSets, Bags, TLC

\* ---------------------------------------------------------------- bounds
\* A run is explored under one of two sets of bounds, drawn by Init:
\*   the thread bounds: several rows and several create requests in flight at
\*     one instant of the clock, for the claims about replies;
\*   the lifecycle bounds: one row, followed until its edit, delete and restore
\*     windows have all closed, for the claims about one comment's life.
ThreadRows == 3      \* rows the store may hold
ThreadFlights == 2   \* create requests in flight at once
ThreadMuts == 1      \* successful edits, deletes and restores in one run
LifeMuts == 4        \* successful edits, deletes and restores in one run

\* ------------------------------------------------------ program constants
\* Comment.isEditable, isDeletable, isRestorable: Date.now() - 15 * 60 * 1000,
\* in minutes
W == 15

\* The clock is observed at every third of the window, so that an instant lies
\* strictly inside, exactly at and strictly after the end of each window.
TickStep == W \div 3

\* the last instant of the lifecycle bounds: a delete at the end of the delete
\* window and a restore at the end of its restore window both lie before it
LifeClock == 2 * W + TickStep

Users == {"u1", "u2"}

ReadRows == 3

RacePending == 2
RaceMuts == 2

SeqRows == 3
SeqMuts == 2

\* the results of notificationsService.createCommentReplyNotification
NotifyResults == {"sent", "failed"}

\* the lifecycle bounds: one comment edited, deleted and restored over time
LifeBounds ==
    [rows |-> 1, flights |-> 0, muts |-> LifeMuts,
     clock |-> LifeClock, contents |-> {"a", "b"}, notify |-> NotifyResults]

Bounds ==
    { [rows |-> ThreadRows, flights |-> ThreadFlights, muts |-> ThreadMuts,
       clock |-> 0, contents |-> {"a"}, notify |-> NotifyResults],
      LifeBounds }

Null == <<>>
Some(v) == <<v>>

VARIABLES
    bound,      \* the bounds of this run: an element of Bounds, never changed
    comments,   \* the comments table: a sequence of rows, row i has id i
    now,        \* the wall clock (Date.now()), in minutes
    inflight,   \* bag of create requests between two awaits
    notes,      \* calls of createCommentReplyNotification that succeeded
    last,       \* the response of the request that just finished, until its
                \* caller has received it
    createdWith,\* history: the content each comment was created with
    editLog,    \* history: the texts of each comment's successful edits, in order
    nMut,       \* number of successful edits, deletes and restores so far
    pending     \* edits, deletes and restores between their read and their save

vars ==
    <<bound, comments, now, inflight, notes, last, createdWith, editLog, nMut,
      pending>>

\* ------------------------------------------------------------- the entity
Exists(id) == id \in 1..Len(comments)

\* findById / findOne({ where: { id } }): the row, or Null
findById(id) == IF Exists(id) THEN Some(comments[id]) ELSE Null

\* isEditable with the end of the window counted in (>= for >)
isEditableInclusive(c, t) == c.createdAt >= t - W /\ ~c.isDeleted

\* Comment.isEditable
isEditable(c, t) == c.createdAt > t - W /\ ~c.isDeleted

\* isDeletable without its window
isDeletableAlways(c, t) == TRUE

\* Comment.isDeletable
isDeletable(c, t) == c.createdAt > t - W

\* isRestorable without its window
isRestorableAnyTime(c, t) == c.isDeleted /\ c.deletedAt # Null

\* Comment.isRestorable
isRestorable(c, t) ==
    IF ~c.isDeleted \/ c.deletedAt = Null THEN FALSE
    ELSE c.deletedAt[1] > t - W

\* the row created without its parentId: a reply stored as if it had no parent
NewCommentDetached(id, content, authorId, parentId, depth, path, t) ==
    [ id |-> id,
      content |-> content,
      originalContent |-> Null,
      isEdited |-> FALSE,
      editedAt |-> Null,
      isDeleted |-> FALSE,
      deletedAt |-> Null,
      restoredAt |-> Null,
      depth |-> depth,
      childrenCount |-> 0,
      path |-> path,
      createdAt |-> t,
      authorId |-> authorId,
      parentId |-> Null ]

\* commentRepository.create({content, authorId, parentId, depth, path}) and the
\* column defaults the insert fills in
NewComment(id, content, authorId, parentId, depth, path, t) ==
    [ id |-> id,
      content |-> content,
      originalContent |-> Null,
      isEdited |-> FALSE,
      editedAt |-> Null,
      isDeleted |-> FALSE,
      deletedAt |-> Null,
      restoredAt |-> Null,
      depth |-> depth,
      childrenCount |-> 0,
      path |-> path,
      createdAt |-> t,
      authorId |-> authorId,
      parentId |-> parentId ]

\* A response: the operation, the comment it named (for create: the row it
\* persisted, if any), the requester (for create: the author), how it ended
\* ("ok", or the exception thrown), and for create the parentId asked for and
\* what became of the notification call.
Result(op, id, user, outcome, parent, notify) ==
    [op |-> op, id |-> id, user |-> user, outcome |-> outcome,
     parent |-> parent, notify |-> notify]

NoResult == Result("none", Null, "u1", "ok", Null, "none")

\* no response is on its way to a caller
Idle == last.op = "none"

Init ==
    /\ bound \in Bounds
    /\ comments = <<>>
    /\ now = 0
    /\ inflight = EmptyBag
    /\ notes = {}
    /\ last = NoResult
    /\ createdWith = <<>>
    /\ editLog = <<>>
    /\ nMut = 0
    /\ pending = {}

\* the clock advances
Tick ==
    /\ Idle
    /\ now + TickStep <= bound.clock
    /\ now' = now + TickStep
    /\ UNCHANGED <<bound, pending, comments, inflight, notes, last, createdWith, editLog, nMut>>

\* ------------------------------------------------------------------ create
\* the parent checks without the one on isDeleted
ParentCheckIgnoresDeleted(parent) == IF parent = Null THEN "NotFound" ELSE "ok"

\* create(), lines 35-41: the checks on the looked-up parent
ParentCheck(parent) ==
    IF parent = Null THEN "NotFound"
    ELSE IF parent[1].isDeleted THEN "BadRequest"
    ELSE "ok"

\* the depth of the parent taken for the depth of the reply
ChildDepthOfParent(parent) == parent.depth

\* create(), line 43: depth = parent.depth + 1
ChildDepth(parent) == parent.depth + 1

\* the path of the parent dropped: the reply's path is the parent's id alone
ChildPathParentOnly(parent) == <<parent.id>>

\* create(), line 44: path = parent.path ? `${parent.path}.${parent.id}` : parent.id
ChildPath(parent) ==
    IF parent.path # <<>> THEN parent.path \o <<parent.id>> ELSE <<parent.id>>

\* the increment forgotten: the parent's count written back as it was read
NextCountUnchanged(parent) == parent.childrenCount

\* create(), line 48: the value written to the parent's childrenCount
NextCount(parent) == parent.childrenCount + 1

\* every reply notifies, a reply to one's own comment too
ShouldNotifyAlways(parent, authorId) == TRUE

\* create(), line 63: whether the reply notifies the parent's author
ShouldNotify(parent, authorId) == parent.authorId # authorId

\* create(), lines 63-71: the call is awaited with no handler around it, so its
\* rejection is the rejection of create()
CreateOutcome(notified) == IF notified = "failed" THEN "NotifyError" ELSE "ok"

\* the fields of the looked-up parent that create() reads after its first await
Snapshot(c) ==
    [id |-> c.id, authorId |-> c.authorId, childrenCount |-> c.childrenCount]

\* rows persisted or still to be persisted by a request in flight
Reserved == Len(comments) + BagCardinality(inflight)

Replace(r, s) == (inflight (-) SetToBag({r})) (+) SetToBag({s})

\* create() without parentId: lines 29-31, 52-60, 71
CreateRoot(content, authorId) ==
    /\ Idle
    /\ Reserved < bound.rows
    /\ LET id == Len(comments) + 1 IN
        /\ comments' = Append(comments,
                NewComment(id, content, authorId, Null, 0, <<>>, now))
        /\ last' = Result("create", Some(id), authorId, "ok", Null, "none")
    /\ createdWith' = Append(createdWith, content)
    /\ editLog' = Append(editLog, <<>>)
    /\ UNCHANGED <<bound, pending, now, inflight, notes, nMut>>

\* create() with parentId, up to its first write: lines 33-44
CreateLookup(content, authorId, parentId) ==
    LET parent == findById(parentId)
        chk == ParentCheck(parent)
    IN  \/ /\ Idle
           /\ chk # "ok"
           /\ last' = Result("create", Null, authorId, chk, Some(parentId), "none")
           /\ UNCHANGED <<bound, pending, comments, now, inflight, notes, createdWith, editLog, nMut>>
        \/ /\ Idle
           /\ chk = "ok"
           /\ Reserved < bound.rows
           /\ BagCardinality(inflight) < bound.flights
           /\ inflight' = inflight (+) SetToBag({
                [ pc |-> "count",
                  content |-> content,
                  authorId |-> authorId,
                  parentId |-> parentId,
                  parent |-> Snapshot(parent[1]),
                  depth |-> ChildDepth(parent[1]),
                  path |-> ChildPath(parent[1]),
                  savedId |-> Null ]})
           /\ UNCHANGED <<bound, pending, comments, now, notes, last, createdWith, editLog, nMut>>

\* create(), lines 47-49: commentRepository.update(parentId, {childrenCount})
CreateCount(r) ==
    /\ Idle
    /\ r.pc = "count"
    /\ comments' = [comments EXCEPT ![r.parentId].childrenCount = NextCount(r.parent)]
    /\ inflight' = Replace(r, [r EXCEPT !.pc = "save"])
    /\ UNCHANGED <<bound, pending, now, notes, last, createdWith, editLog, nMut>>

\* create(), lines 52-63 (and 71 when no notification is due)
CreateSave(r) ==
    /\ Idle
    /\ r.pc = "save"
    /\ LET id == Len(comments) + 1 IN
        /\ comments' = Append(comments,
                NewComment(id, r.content, r.authorId, Some(r.parentId),
                           r.depth, r.path, now))
        /\ IF ShouldNotify(r.parent, r.authorId)
           THEN /\ inflight' = Replace(r, [r EXCEPT !.pc = "notify", !.savedId = Some(id)])
                /\ UNCHANGED last
           ELSE /\ inflight' = inflight (-) SetToBag({r})
                /\ last' = Result("create", Some(id), r.authorId, "ok",
                                 Some(r.parentId), "none")
    /\ createdWith' = Append(createdWith, r.content)
    /\ editLog' = Append(editLog, <<>>)
    /\ UNCHANGED <<bound, pending, now, notes, nMut>>

\* create(), lines 64-71: the notification call and the return
CreateNotify(r, notified) ==
    /\ Idle
    /\ r.pc = "notify"
    /\ notes' = IF notified = "sent"
                THEN notes \cup {[recipient |-> r.parent.authorId,
                                  comment |-> r.savedId[1],
                                  actor |-> r.authorId]}
                ELSE notes
    /\ inflight' = inflight (-) SetToBag({r})
    /\ last' = Result("create", r.savedId, r.authorId, CreateOutcome(notified),
                      Some(r.parentId), notified)
    /\ UNCHANGED <<bound, pending, comments, now, createdWith, editLog, nMut>>

\* -------------------------------------------------- update, delete, restore
\* update(), lines 151-165
UpdateCheck(found, userId, t) ==
    IF found = Null THEN "NotFound"
    ELSE IF found[1].authorId # userId THEN "Forbidden"
    ELSE IF ~isEditable(found[1], t) THEN "Forbidden"
    ELSE IF found[1].isDeleted THEN "BadRequest"
    ELSE "ok"

\* an edit that captures originalContent every time, not on the first edit only
EditedCaptureAlways(c, content, t) ==
    [c EXCEPT !.originalContent = Some(c.content),
              !.content = content,
              !.isEdited = TRUE,
              !.editedAt = Some(t)]

\* update(), lines 168-174
Edited(c, content, t) ==
    [c EXCEPT !.originalContent = IF ~c.isEdited THEN Some(c.content) ELSE @,
              !.content = content,
              !.isEdited = TRUE,
              !.editedAt = Some(t)]

\* the checks of delete() without the one on the requester
DeleteCheckNoOwner(found, userId, t) ==
    IF found = Null THEN "NotFound"
    ELSE IF ~isDeletable(found[1], t) THEN "Forbidden"
    ELSE "ok"

\* the checks of delete() with one more: a soft-deleted comment is refused
DeleteCheckRejectsDeleted(found, userId, t) ==
    IF found = Null THEN "NotFound"
    ELSE IF found[1].authorId # userId THEN "Forbidden"
    ELSE IF ~isDeletable(found[1], t) THEN "Forbidden"
    ELSE IF found[1].isDeleted THEN "BadRequest"
    ELSE "ok"

\* delete(), lines 182-192
DeleteCheck(found, userId, t) ==
    IF found = Null THEN "NotFound"
    ELSE IF found[1].authorId # userId THEN "Forbidden"
    ELSE IF ~isDeletable(found[1], t) THEN "Forbidden"
    ELSE "ok"

\* the deleted comment taken out of its thread as well
DeletedDetached(c, t) ==
    [c EXCEPT !.isDeleted = TRUE, !.deletedAt = Some(t), !.parentId = Null]

\* delete(), lines 194-195
Deleted(c, t) == [c EXCEPT !.isDeleted = TRUE, !.deletedAt = Some(t)]

\* restore(), lines 203-213
RestoreCheck(found, userId, t) ==
    IF found = Null THEN "NotFound"
    ELSE IF found[1].authorId # userId THEN "Forbidden"
    ELSE IF ~isRestorable(found[1], t) THEN "Forbidden"
    ELSE "ok"

\* restore(), lines 215-217
Restored(c, t) ==
    [c EXCEPT !.isDeleted = FALSE, !.deletedAt = Null, !.restoredAt = Some(t)]

\* update(id, {content}, userId)
Update(id, content, userId) ==
    LET found == findById(id)
        chk == UpdateCheck(found, userId, now)
    IN  /\ Idle
        /\ last' = Result("update", Some(id), userId, chk, Null, "none")
        /\ IF chk = "ok"
           THEN /\ nMut < bound.muts
                /\ comments' = [comments EXCEPT ![id] = Edited(found[1], content, now)]
                /\ editLog' = [editLog EXCEPT ![id] = Append(@, content)]
                /\ nMut' = nMut + 1
           ELSE UNCHANGED <<comments, editLog, nMut>>
        /\ UNCHANGED <<bound, pending, now, inflight, notes, createdWith>>

\* delete(id, userId)
Delete(id, userId) ==
    LET found == findById(id)
        chk == DeleteCheck(found, userId, now)
    IN  /\ Idle
        /\ last' = Result("delete", Some(id), userId, chk, Null, "none")
        /\ IF chk = "ok"
           THEN /\ nMut < bound.muts
                /\ comments' = [comments EXCEPT ![id] = Deleted(found[1], now)]
                /\ nMut' = nMut + 1
           ELSE UNCHANGED <<comments, nMut>>
        /\ UNCHANGED <<bound, pending, now, inflight, notes, createdWith, editLog>>

\* restore(id, userId)
Restore(id, userId) ==
    LET found == findById(id)
        chk == RestoreCheck(found, userId, now)
    IN  /\ Idle
        /\ last' = Result("restore", Some(id), userId, chk, Null, "none")
        /\ IF chk = "ok"
           THEN /\ nMut < bound.muts
                /\ comments' = [comments EXCEPT ![id] = Restored(found[1], now)]
                /\ nMut' = nMut + 1
           ELSE UNCHANGED <<comments, nMut>>
        /\ UNCHANGED <<bound, pending, now, inflight, notes, createdWith, editLog>>

\* the caller receives the response of the request that finished last
Respond ==
    /\ ~Idle
    /\ last' = NoResult
    /\ UNCHANGED <<bound, pending, comments, now, inflight, notes, createdWith, editLog, nMut>>

Contents == bound.contents
Ids == 1..bound.rows

Next ==
    \/ Tick
    \/ Respond
    \/ \E c \in Contents, a \in Users : CreateRoot(c, a)
    \/ \E c \in Contents, a \in Users, p \in Ids : CreateLookup(c, a, p)
    \/ \E r \in BagToSet(inflight) : CreateCount(r)
    \/ \E r \in BagToSet(inflight) : CreateSave(r)
    \/ \E r \in BagToSet(inflight), n \in bound.notify : CreateNotify(r, n)
    \/ \E id \in Ids, c \in Contents, u \in Users : Update(id, c, u)
    \/ \E id \in Ids, u \in Users : Delete(id, u)
    \/ \E id \in Ids, u \in Users : Restore(id, u)

Spec == Init /\ [][Next]_vars

\* ------------------------------------------------------- one at a time
\* The service called by one caller that awaits each call: a request starts
\* only when no create is between its awaits.
Quiet == inflight = EmptyBag

NextSeq ==
    \/ Tick
    \/ Respond
    \/ \E c \in Contents, a \in Users : Quiet /\ CreateRoot(c, a)
    \/ \E c \in Contents, a \in Users, p \in Ids : Quiet /\ CreateLookup(c, a, p)
    \/ \E r \in BagToSet(inflight) : CreateCount(r)
    \/ \E r \in BagToSet(inflight) : CreateSave(r)
    \/ \E r \in BagToSet(inflight), n \in bound.notify : CreateNotify(r, n)
    \/ \E id \in Ids, c \in Contents, u \in Users : Quiet /\ Update(id, c, u)
    \/ \E id \in Ids, u \in Users : Quiet /\ Delete(id, u)
    \/ \E id \in Ids, u \in Users : Quiet /\ Restore(id, u)

SeqBounds ==
    { [rows |-> SeqRows, flights |-> 1, muts |-> SeqMuts,
       clock |-> 0, contents |-> {"a"}, notify |-> NotifyResults],
      LifeBounds }

InitSeq ==
    /\ bound \in SeqBounds
    /\ comments = <<>>
    /\ now = 0
    /\ inflight = EmptyBag
    /\ notes = {}
    /\ last = NoResult
    /\ createdWith = <<>>
    /\ editLog = <<>>
    /\ nMut = 0
    /\ pending = {}

SpecSeq == InitSeq /\ [][NextSeq]_vars

\* -------------------------------------------- update, delete, restore raced
\* update(), delete() and restore() each await findById(), check and assign
\* the entity they got without another await, and then await save(): in between
\* other requests run. save() writes the columns of the entity that differ
\* from the stored row, so the entity replaces the row whatever was written to
\* it since the read.
Pending(op, id, userId, content, row) ==
    [op |-> op, id |-> id, user |-> userId, content |-> content, row |-> row]

\* update(), lines 149-174: the read, the checks and the assignments
UpdateRead(id, content, userId) ==
    LET found == findById(id)
        chk == UpdateCheck(found, userId, now)
    IN  /\ Idle
        /\ IF chk = "ok"
           THEN /\ nMut < bound.muts
                /\ Cardinality(pending) < bound.pending
                /\ pending' = pending \cup
                        {Pending("update", id, userId, content,
                                 Edited(found[1], content, now))}
                /\ nMut' = nMut + 1
                /\ UNCHANGED last
           ELSE /\ last' = Result("update", Some(id), userId, chk, Null, "none")
                /\ UNCHANGED <<pending, nMut>>
        /\ UNCHANGED <<bound, comments, now, inflight, notes, createdWith, editLog>>

\* delete(), lines 180-195: the read, the checks and the assignments
DeleteRead(id, userId) ==
    LET found == findById(id)
        chk == DeleteCheck(found, userId, now)
    IN  /\ Idle
        /\ IF chk = "ok"
           THEN /\ nMut < bound.muts
                /\ Cardinality(pending) < bound.pending
                /\ pending' = pending \cup
                        {Pending("delete", id, userId, found[1].content,
                                 Deleted(found[1], now))}
                /\ nMut' = nMut + 1
                /\ UNCHANGED last
           ELSE /\ last' = Result("delete", Some(id), userId, chk, Null, "none")
                /\ UNCHANGED <<pending, nMut>>
        /\ UNCHANGED <<bound, comments, now, inflight, notes, createdWith, editLog>>

\* restore(), lines 201-217: the read, the checks and the assignments
RestoreRead(id, userId) ==
    LET found == findById(id)
        chk == RestoreCheck(found, userId, now)
    IN  /\ Idle
        /\ IF chk = "ok"
           THEN /\ nMut < bound.muts
                /\ Cardinality(pending) < bound.pending
                /\ pending' = pending \cup
                        {Pending("restore", id, userId, found[1].content,
                                 Restored(found[1], now))}
                /\ nMut' = nMut + 1
                /\ UNCHANGED last
           ELSE /\ last' = Result("restore", Some(id), userId, chk, Null, "none")
                /\ UNCHANGED <<pending, nMut>>
        /\ UNCHANGED <<bound, comments, now, inflight, notes, createdWith, editLog>>

\* lines 176, 197, 219: commentRepository.save(comment) and the return
Save(r) ==
    /\ Idle
    /\ r \in pending
    /\ comments' = [comments EXCEPT ![r.id] = r.row]
    /\ pending' = pending \ {r}
    /\ last' = Result(r.op, Some(r.id), r.user, "ok", Null, "none")
    /\ editLog' = IF r.op = "update"
                  THEN [editLog EXCEPT ![r.id] = Append(@, r.content)]
                  ELSE editLog
    /\ UNCHANGED <<bound, now, inflight, notes, createdWith, nMut>>

NextRace ==
    \/ Tick
    \/ Respond
    \/ \E c \in Contents, a \in Users : CreateRoot(c, a)
    \/ \E c \in Contents, a \in Users, p \in Ids : CreateLookup(c, a, p)
    \/ \E r \in BagToSet(inflight) : CreateCount(r)
    \/ \E r \in BagToSet(inflight) : CreateSave(r)
    \/ \E r \in BagToSet(inflight), n \in bound.notify : CreateNotify(r, n)
    \/ \E id \in Ids, c \in Contents, u \in Users : UpdateRead(id, c, u)
    \/ \E id \in Ids, u \in Users : DeleteRead(id, u)
    \/ \E id \in Ids, u \in Users : RestoreRead(id, u)
    \/ \E r \in pending : Save(r)

\* the bounds of the races: a comment and a reply to it, two of update, delete
\* and restore between their read and their save; and one comment raced over
\* the end of its delete window
RaceBounds ==
    { [rows |-> 2, flights |-> 1, muts |-> RaceMuts,
       pending |-> RacePending, clock |-> TickStep, contents |-> {"a", "b"},
       notify |-> {"sent"}],
      [rows |-> 1, flights |-> 0, muts |-> RaceMuts + 1,
       pending |-> RacePending, clock |-> W + TickStep, contents |-> {"a"},
       notify |-> {"sent"}] }

InitRace ==
    /\ bound \in RaceBounds
    /\ comments = <<>>
    /\ now = 0
    /\ inflight = EmptyBag
    /\ notes = {}
    /\ last = NoResult
    /\ createdWith = <<>>
    /\ editLog = <<>>
    /\ nMut = 0
    /\ pending = {}

SpecRace == InitRace /\ [][NextRace]_vars

\* ================================================================ queries
\* The retrieval operations read the store and change nothing; each is the set
\* of results the database may return in the current state, since ORDER BY
\* leaves the order of rows with equal createdAt open. Like every request, a
\* retrieval is served in the states where no response is on its way (Idle).

\* path LIKE 'pattern%': ids are uuids of one fixed width, so a pattern made
\* of whole ids matches a path exactly when its ids are a prefix of the path's
Like(path, pattern) ==
    /\ Len(pattern) <= Len(path)
    /\ SubSeq(path, 1, Len(pattern)) = pattern

\* ORDER BY createdAt ASC over the rows S
RECURSIVE OrderByAsc(_)
OrderByAsc(S) ==
    IF S = {} THEN {<<>>}
    ELSE UNION { { <<m>> \o t : t \in OrderByAsc(S \ {m}) } :
                 m \in { x \in S : \A y \in S :
                            comments[x].createdAt <= comments[y].createdAt } }

\* ORDER BY createdAt DESC over the rows S
RECURSIVE OrderByDesc(_)
OrderByDesc(S) ==
    IF S = {} THEN {<<>>}
    ELSE UNION { { <<m>> \o t : t \in OrderByDesc(S \ {m}) } :
                 m \in { x \in S : \A y \in S :
                            comments[x].createdAt >= comments[y].createdAt } }

\* the path of the comment left out of the pattern: its id alone
SubtreePatternOfId(c) == <<c.id>>

\* findByIdWithChildren(), line 92: the comment's path, then its id
SubtreePattern(c) == (IF c.path # <<>> THEN c.path ELSE <<>>) \o <<c.id>>

\* findByIdWithChildren(), lines 89-96: the rows below the comment
SubtreeRows(c) ==
    { x \in 1..Len(comments) :
        Like(comments[x].path, SubtreePattern(c)) /\ x # c.id }

\* buildNestedStructure(): the ids of the list whose path names parentId, in
\* the order of the list, each with the structure built below it
RECURSIVE buildNestedStructure(_, _)
buildNestedStructure(list, parentId) ==
    LET children ==
            SelectSeq(list, LAMBDA x :
                /\ comments[x].path # <<>>
                /\ \E i \in DOMAIN comments[x].path :
                        comments[x].path[i] = parentId)
    IN  [ i \in 1..Len(children) |->
            [id |-> children[i],
             children |-> buildNestedStructure(list, children[i])] ]

\* findByIdWithChildren(): null for an unknown id, else the comment with the
\* nested structure of the rows below it
findByIdWithChildren(id) ==
    IF ~Exists(id) THEN {Null}
    ELSE { Some([id |-> id, children |-> buildNestedStructure(list, id)]) :
            list \in OrderByAsc(SubtreeRows(comments[id])) }

\* the last segment of the path taken for the root: the parent's id
ThreadRootIdOfParent(c) == IF c.path # <<>> THEN c.path[Len(c.path)] ELSE c.id

\* getThreadByComment(), lines 229-232: the first segment of the path, or the
\* comment's own id when its path is empty
ThreadRootId(c) == IF c.path # <<>> THEN c.path[1] ELSE c.id

\* getThreadByComment(), lines 234-245: NotFound for an unknown id, else the
\* root row and the rows whose path starts with the root's id, oldest first
getThreadByComment(commentId) ==
    IF ~Exists(commentId) THEN {"NotFound"}
    ELSE LET rootId == ThreadRootId(comments[commentId])
         IN  OrderByAsc({ x \in 1..Len(comments) :
                            x = rootId \/ Like(comments[x].path, <<rootId>>) })

\* the skip of the page after: page * limit
SkipPastPage(page, limit) == page * limit

\* findMany(), line 135: skip((page - 1) * limit)
Skip(page, limit) == (page - 1) * limit

\* findMany(), line 136: take(limit) of the rows left after the skip
Take(s, skip, limit) ==
    SubSeq(s, skip + 1, IF skip + limit < Len(s) THEN skip + limit ELSE Len(s))

\* findMany(), lines 117-131: the WHERE clause built from the options; authorId
\* is Null when not given, parentGiven says parentId !== undefined and
\* parentId is then Null for null
Where(o, c) ==
    /\ ~o.includeDeleted => ~c.isDeleted
    /\ o.authorId # Null => c.authorId = o.authorId[1]
    /\ o.parentGiven =>
            IF o.parentId = Null THEN c.parentId = Null
            ELSE c.parentId = o.parentId

\* findMany(): the page of the matching rows, newest first, and their number
findMany(o) ==
    LET matched == { x \in 1..Len(comments) : Where(o, comments[x]) }
    IN  { [comments |-> Take(s, Skip(o.page, o.limit), o.limit),
           total |-> Cardinality(matched),
           page |-> o.page,
           limit |-> o.limit] : s \in OrderByDesc(matched) }

\* the options findMany() is called with
Pages == 1..2
Limits == 1..2
OptionsWithParent ==
    [ page : Pages, limit : Limits, includeDeleted : BOOLEAN,
      authorId : {Null} \cup { Some(u) : u \in Users },
      parentGiven : {TRUE}, parentId : {Null} \cup { Some(i) : i \in Ids } ]
OptionsWithoutParent ==
    [ page : Pages, limit : Limits, includeDeleted : BOOLEAN,
      authorId : {Null} \cup { Some(u) : u \in Users },
      parentGiven : {FALSE}, parentId : {Null} ]

\* the bounds of the retrieval scenarios: one create in flight, one row
\* soft-deleted or edited, two instants, every notification delivered
ReadBounds ==
    { [rows |-> ReadRows, flights |-> 1, muts |-> 1,
       clock |-> TickStep, contents |-> {"a"}, notify |-> {"sent"}] }

InitRead ==
    /\ bound \in ReadBounds
    /\ comments = <<>>
    /\ now = 0
    /\ inflight = EmptyBag
    /\ notes = {}
    /\ last = NoResult
    /\ createdWith = <<>>
    /\ editLog = <<>>
    /\ nMut = 0
    /\ pending = {}

SpecRead == InitRead /\ [][Next]_vars

\* ================================================================= claims
Rows == 1..Len(comments)

\* the stored comments whose parentId is p
ChildrenOf(p) == {c \in Rows : comments[c].parentId = Some(p)}

Owner(id) == comments[id].authorId

\* C1: when the create requests for replies to a parent have all completed
\* (none is in flight), the parent's childrenCount has grown by one for each of
\* them: it equals the number of stored replies to it.
C1_NoLostIncrement ==
    inflight = EmptyBag =>
        \A p \in Rows : comments[p].childrenCount = Cardinality(ChildrenOf(p))

\* C2: a create whose notification call failed still reports success, and the
\* comment it persisted is stored.
C2_NotifyFailureNotPropagated ==
    (last.op = "create" /\ last.notify = "failed") =>
        (last.outcome = "ok" /\ last.id # Null /\ Exists(last.id[1]))

\* a step in which a request for operation op on a stored comment finishes
Finishes(op) ==
    /\ Idle
    /\ last'.op = op
    /\ last'.id # Null
    /\ Exists(last'.id[1])

\* the comment a finishing request names, before and after the step
Target == comments[last'.id[1]]
TargetAfter == comments'[last'.id[1]]

\* time since the creation of comment c
Age(c) == now - c.createdAt

\* C3 as claimed: an edit by the owner of a non-deleted comment succeeds if and
\* only if now - createdAt <= W, the instant now - createdAt = W included.
C3_EditWindowInclusive ==
    (/\ last.op = "update"
     /\ last.id # Null
     /\ Exists(last.id[1])
     /\ last.user = Owner(last.id[1])
     /\ (last.outcome = "ok" \/ ~comments[last.id[1]].isDeleted))
    => (last.outcome = "ok" <=> Age(comments[last.id[1]]) <= W)

\* C3 as amended: an edit by the owner of a non-deleted comment succeeds if and
\* only if now - createdAt < W; when now - createdAt >= W (the instant
\* now - createdAt = W included) it fails with Forbidden and no comment changes.
C3_EditWindow ==
    [][ (Finishes("update") /\ last'.user = Target.authorId /\ ~Target.isDeleted)
        => IF Age(Target) < W
           THEN /\ last'.outcome = "ok"
                /\ TargetAfter.content = editLog'[last'.id[1]][Len(editLog'[last'.id[1]])]
                /\ Len(editLog'[last'.id[1]]) = Len(editLog[last'.id[1]]) + 1
           ELSE /\ last'.outcome = "Forbidden"
                /\ comments' = comments ]_vars

\* C3 witness: the owner's edit of a non-deleted comment has just been refused
\* at the instant now - createdAt = W.
C3_Witness ==
    /\ last.op = "update"
    /\ last.id # Null
    /\ Exists(last.id[1])
    /\ last.user = Owner(last.id[1])
    /\ ~comments[last.id[1]].isDeleted
    /\ Age(comments[last.id[1]]) = W
    /\ last.outcome = "Forbidden"

\* C4: an edit, delete or restore asked by a user other than the comment's
\* author fails with Forbidden, at any age of the comment and whether or not it
\* is soft-deleted, and changes no stored comment.
C4_NonOwnerForbidden ==
    [][ \A op \in {"update", "delete", "restore"} :
            (Finishes(op) /\ last'.user # Target.authorId)
            => (last'.outcome = "Forbidden" /\ comments' = comments) ]_vars

\* C4 witness: a user who is not the author has just been refused the delete of
\* a comment that its author could still delete.
C4_Witness ==
    /\ last.op = "delete"
    /\ last.id # Null
    /\ Exists(last.id[1])
    /\ last.user # Owner(last.id[1])
    /\ isDeletable(comments[last.id[1]], now)
    /\ last.outcome = "Forbidden"

\* C5: an edit by the owner of a soft-deleted comment fails with InvalidState
\* (BadRequestException), also inside the edit window.
C5_EditDeletedInvalidState ==
    (/\ last.op = "update"
     /\ last.id # Null
     /\ Exists(last.id[1])
     /\ last.user = Owner(last.id[1])
     /\ last.outcome # "ok"
     /\ comments[last.id[1]].isDeleted)
    => last.outcome = "BadRequest"

\* C6: a create whose parentId names no stored comment fails with NotFound, and
\* one whose parent is soft-deleted when it is looked up fails with InvalidState
\* (BadRequestException); in both cases no row is persisted, no childrenCount
\* changes, no notification is sent and no request stays in flight.
C6_CreateRejected ==
    [][ \A c \in Contents, a \in Users, p \in Ids :
            (CreateLookup(c, a, p) /\ (~Exists(p) \/ comments[p].isDeleted))
            => /\ last'.op = "create"
               /\ last'.outcome = (IF ~Exists(p) THEN "NotFound" ELSE "BadRequest")
               /\ last'.id = Null
               /\ comments' = comments
               /\ notes' = notes
               /\ inflight' = inflight ]_vars

\* C6 witness: a reply to a stored, soft-deleted comment has just been
\* rejected with BadRequest.
C6_Witness ==
    /\ last.op = "create"
    /\ last.outcome = "BadRequest"
    /\ last.parent # Null
    /\ Exists(last.parent[1])
    /\ comments[last.parent[1]].isDeleted
    /\ last.id = Null

\* C7: the owner's restore of a soft-deleted comment succeeds when
\* now - deletedAt < W and leaves isDeleted = false, deletedAt = null and
\* restoredAt = now; when now - deletedAt > W it fails with Forbidden and the
\* comment stays deleted, deletedAt and restoredAt unchanged.
C7_RestoreWindow ==
    [][ (Finishes("restore") /\ last'.user = Target.authorId /\ Target.isDeleted)
        => /\ (now - Target.deletedAt[1] < W)
                => /\ last'.outcome = "ok"
                   /\ ~TargetAfter.isDeleted
                   /\ TargetAfter.deletedAt = Null
                   /\ TargetAfter.restoredAt = Some(now)
           /\ (now - Target.deletedAt[1] > W)
                => /\ last'.outcome = "Forbidden"
                   /\ comments' = comments ]_vars

\* C7 witness: the owner's restore has just been refused, more than W after
\* the delete, on a comment that had been restored once before.
C7_Witness ==
    /\ last.op = "restore"
    /\ last.id # Null
    /\ Exists(last.id[1])
    /\ last.user = Owner(last.id[1])
    /\ last.outcome = "Forbidden"
    /\ comments[last.id[1]].isDeleted
    /\ now - comments[last.id[1]].deletedAt[1] > W
    /\ comments[last.id[1]].restoredAt # Null

\* a comment without its childrenCount, which replies to it increment
Own(c) == [f \in (DOMAIN c) \ {"childrenCount"} |-> c[f]]

C9_OriginalContent ==
    \A id \in Rows :
        IF editLog[id] # <<>>
        THEN /\ comments[id].originalContent = Some(createdWith[id])
             /\ comments[id].content = editLog[id][Len(editLog[id])]
             /\ comments[id].isEdited
        ELSE comments[id].originalContent = Null

\* C9 witness: a comment edited twice, the second time after a delete and a
\* restore, to a text that is not the one it was created with.
C9_Witness ==
    \E id \in Rows :
        /\ Len(editLog[id]) = 2
        /\ editLog[id][1] # createdWith[id]
        /\ editLog[id][2] # editLog[id][1]
        /\ comments[id].restoredAt # Null
        /\ comments[id].editedAt[1] > comments[id].restoredAt[1]

\* C10: every stored comment has depth 0 if and only if it has no parentId, and
\* otherwise its depth is the depth of its parent plus 1.
C10_Depth ==
    \A id \in Rows :
        /\ comments[id].depth = 0 <=> comments[id].parentId = Null
        /\ comments[id].parentId # Null
            => /\ Exists(comments[id].parentId[1])
               /\ comments[id].depth = comments[comments[id].parentId[1]].depth + 1

\* C10 witness: a reply to a reply is stored, at depth 2.
C10_Witness ==
    \E id \in Rows :
        /\ comments[id].depth = 2
        /\ comments[id].parentId # Null
        /\ comments[comments[id].parentId[1]].parentId # Null

\* the strict ancestors of comment id, root first, found by following parentId
RECURSIVE AncestorsOf(_)
AncestorsOf(id) ==
    IF comments[id].parentId = Null THEN <<>>
    ELSE AncestorsOf(comments[id].parentId[1]) \o <<comments[id].parentId[1]>>

\* C11: the path of every stored comment is the root-first sequence of the ids
\* of its strict ancestors: empty for a root, the parent's path followed by the
\* parent's id otherwise; so its number of segments is the comment's depth.
C11_Path ==
    \A id \in Rows :
        /\ comments[id].path = AncestorsOf(id)
        /\ comments[id].path =
                (IF comments[id].parentId = Null THEN <<>>
                 ELSE comments[comments[id].parentId[1]].path
                        \o <<comments[id].parentId[1]>>)
        /\ Len(comments[id].path) = comments[id].depth

\* C11 witness: a reply to a reply is stored, its path naming the root and then
\* its parent.
C11_Witness ==
    \E id \in Rows :
        /\ Len(comments[id].path) = 2
        /\ comments[id].path[1] # comments[id].path[2]
        /\ comments[id].parentId = Some(comments[id].path[2])
        /\ comments[comments[id].path[2]].parentId = Some(comments[id].path[1])

\* the comments reached from p through parentId, p itself left out
RECURSIVE DescendantsOf(_)
DescendantsOf(p) ==
    ChildrenOf(p) \cup UNION { DescendantsOf(c) : c \in ChildrenOf(p) }

\* the ids held by a nested structure
RECURSIVE NodesOf(_)
NodesOf(nodes) ==
    UNION { {nodes[i].id} \cup NodesOf(nodes[i].children) : i \in DOMAIN nodes }

\* C12: the subtree retrieval of a stored comment returns that comment with
\* exactly its transitive descendants through parentId, soft-deleted ones
\* included: every descendant is returned and nothing else is.
C12_Subtree ==
    Idle => \A id \in Rows : \A r \in findByIdWithChildren(id) :
        /\ r # Null
        /\ r[1].id = id
        /\ NodesOf(r[1].children) = DescendantsOf(id)

\* C12 witness: a reply with a soft-deleted descendant, and a stored comment
\* outside its subtree; the retrieval of the reply returns the descendant.
C12_Witness ==
    \E id \in Rows, d \in Rows, o \in Rows :
        /\ comments[id].parentId # Null
        /\ d \in DescendantsOf(id)
        /\ comments[d].isDeleted
        /\ o \notin DescendantsOf(id) \cup {id}
        /\ \E r \in findByIdWithChildren(id) : d \in NodesOf(r[1].children)

\* the root of the tree of comment id, found by following parentId
RECURSIVE RootOf(_)
RootOf(id) ==
    IF comments[id].parentId = Null THEN id
    ELSE RootOf(comments[id].parentId[1])

TreeOf(id) == {RootOf(id)} \cup DescendantsOf(RootOf(id))

\* C13: the thread retrieval of a stored comment returns a flat list that
\* holds, each exactly once, the root of the comment's tree and all the
\* transitive descendants of that root (the comment itself among them), in
\* ascending order of createdAt; two comments of one tree yield the same
\* lists.
C13_Thread ==
    Idle => \A id \in Rows :
        /\ \A s \in getThreadByComment(id) :
            /\ s # "NotFound"
            /\ { s[i] : i \in DOMAIN s } = TreeOf(id)
            /\ id \in { s[i] : i \in DOMAIN s }
            /\ \A i, j \in DOMAIN s : i # j => s[i] # s[j]
            /\ \A i, j \in DOMAIN s :
                    i < j => comments[s[i]].createdAt <= comments[s[j]].createdAt
        /\ getThreadByComment(id) = getThreadByComment(RootOf(id))

\* C13 witness: a reply to a reply created after its root; the thread of the
\* reply is its root, its parent and itself.
C13_Witness ==
    \E id \in Rows :
        /\ comments[id].depth = 2
        /\ comments[RootOf(id)].createdAt < comments[id].createdAt
        /\ \E s \in getThreadByComment(id) :
                /\ Len(s) = 3
                /\ s[1] = RootOf(id)
                /\ s[3] = id

\* the notification a finished create owes: to the author of the parent asked
\* for, about the row the create persisted, from the author of that row
NoteOf(res) ==
    [recipient |-> comments[res.parent[1]].authorId,
     comment |-> res.id[1],
     actor |-> res.user]

\* C14: a create calls the notification service once, for (the parent's
\* author, the new comment's id, the new comment's author) and with the new
\* comment already stored, exactly when it is a reply to a comment of another
\* author; a root, a reply to one's own comment and a rejected create call
\* nothing, and no other step adds a notification.
C14_Notify ==
    [][ IF Idle /\ last'.op = "create"
        THEN LET called == last'.notify # "none" IN
             /\ called <=>
                    /\ last'.id # Null
                    /\ last'.parent # Null
                    /\ Owner(last'.parent[1]) # last'.user
             /\ called =>
                    /\ Exists(last'.id[1])
                    /\ comments[last'.id[1]].parentId = last'.parent
                    /\ comments[last'.id[1]].authorId = last'.user
                    /\ comments' = comments
                    /\ NoteOf(last') \notin notes
             /\ notes' = IF last'.notify = "sent"
                         THEN notes \cup {NoteOf(last')}
                         ELSE notes
        ELSE notes' = notes ]_vars

\* C14 witness: a reply to another author's comment has returned, and its one
\* notification is recorded.
C14_Witness ==
    /\ last.op = "create"
    /\ last.outcome = "ok"
    /\ last.notify = "sent"
    /\ Owner(last.parent[1]) # last.user
    /\ NoteOf(last) \in notes
    /\ \A n \in notes : n.comment = last.id[1] => n = NoteOf(last)

\* C15: a reply is stored before its parent's childrenCount is raised, so in
\* every state, those in the middle of a create included, no comment's
\* childrenCount is above the number of stored comments whose parentId is
\* that comment.
C15_CountNeverAhead ==
    \A p \in Rows : comments[p].childrenCount <= Cardinality(ChildrenOf(p))

\* C16: with the operations run one at a time and every create run to its
\* end, the childrenCount of every comment is the number of stored comments
\* whose parentId is that comment, the soft-deleted ones counted with the
\* others: deleting or restoring a child leaves its parent's count alone.
C16_CountIsChildren ==
    Quiet =>
        \A p \in Rows :
            comments[p].childrenCount =
                Cardinality({c \in ChildrenOf(p) : ~comments[c].isDeleted})
                + Cardinality({c \in ChildrenOf(p) : comments[c].isDeleted})

\* C16 witness: after a run of creates and a delete, a comment has a
\* soft-deleted child and another one, and its count is two.
C16_Witness ==
    /\ Quiet
    /\ \E p \in Rows : \E c \in ChildrenOf(p), d \in ChildrenOf(p) :
        /\ comments[c].isDeleted
        /\ ~comments[d].isDeleted
        /\ comments[p].childrenCount = 2

\* the fields that place a comment: who wrote it and where it hangs
Placed(c) ==
    [id |-> c.id, authorId |-> c.authorId, parentId |-> c.parentId,
     depth |-> c.depth, path |-> c.path]

\* C17: an update, a delete or a restore, accepted or rejected, changes the
\* id, authorId, parentId, depth and path of no comment and changes no field
\* of any comment but the one it names; and no step of any operation removes
\* a stored comment.
C17_Frame ==
    [][ /\ Len(comments') >= Len(comments)
        /\ \A id \in Rows : comments'[id].id = id
        /\ (Idle /\ last'.op \in {"update", "delete", "restore"}) =>
                /\ Len(comments') = Len(comments)
                /\ \A id \in Rows :
                    /\ Placed(comments'[id]) = Placed(comments[id])
                    /\ Some(id) # last'.id => comments'[id] = comments[id] ]_vars

\* C17 witness: a delete of a reply has been accepted in a store of three
\* comments; the reply still hangs under its parent and the others are there.
C17_Witness ==
    /\ last.op = "delete"
    /\ last.outcome = "ok"
    /\ Len(comments) = 3
    /\ comments[last.id[1]].isDeleted
    /\ comments[last.id[1]].parentId # Null
    /\ comments[last.id[1]].path # <<>>

\* the stored comments the options o ask for
Matching(o) ==
    { x \in Rows :
        /\ o.includeDeleted \/ ~comments[x].isDeleted
        /\ o.authorId = Null \/ Some(comments[x].authorId) = o.authorId
        /\ \/ ~o.parentGiven
           \/ o.parentGiven /\ o.parentId = Null /\ comments[x].parentId = Null
           \/ o.parentGiven /\ o.parentId # Null
                /\ comments[x].parentId = o.parentId }

\* list is the stretch of n positions after the first k of some arrangement
\* of the set M by descending createdAt
IsPageOf(list, M, k, n) ==
    LET in == { list[i] : i \in DOMAIN list }
        out == M \ in
        size == Cardinality(M)
    IN  /\ in \subseteq M
        /\ \A i, j \in DOMAIN list :
                i < j => /\ list[i] # list[j]
                         /\ comments[list[i]].createdAt >= comments[list[j]].createdAt
        /\ IF size <= k THEN list = <<>>
           ELSE /\ Len(list) = (IF size - k < n THEN size - k ELSE n)
                /\ \E B \in SUBSET out :
                    /\ Cardinality(B) = k
                    /\ \A b \in B :
                        comments[b].createdAt >= comments[list[1]].createdAt
                    /\ \A a \in out \ B :
                        comments[a].createdAt <= comments[list[Len(list)]].createdAt

\* every result of the listing called with o is the page asked for
ListsRight(o) ==
    LET M == Matching(o) IN
    \A r \in findMany(o) :
        /\ r.total = Cardinality(M)
        /\ IsPageOf(r.comments, M, (o.page - 1) * o.limit, o.limit)

\* C18: for every combination of filters the listing returns the requested
\* page, positions (page-1)*limit to page*limit-1 by descending createdAt, of
\* exactly the matching comments, and total is the number of matching
\* comments; a comment matches when (includeDeleted or it is not
\* soft-deleted) and (no authorId or its authorId) and (no parentId, or
\* parentId null and it is a root, or its parentId).
C18_Listing ==
    Idle =>
        /\ \A o \in OptionsWithParent : ListsRight(o)
        /\ \A o \in OptionsWithoutParent : ListsRight(o)

\* C18 witness: three comments of two instants, one of them soft-deleted and
\* one a reply; the second page of one, deleted ones included, holds the one
\* comment between a newer and an older one.
C18_Witness ==
    /\ Len(comments) = 3
    /\ \E d \in Rows : comments[d].isDeleted
    /\ \E c \in Rows : comments[c].parentId # Null
    /\ comments[1].createdAt < comments[3].createdAt
    /\ LET o == [page |-> 2, limit |-> 1, includeDeleted |-> TRUE,
                 authorId |-> Null, parentGiven |-> FALSE, parentId |-> Null]
       IN  /\ \E r \in findMany(o) : r.total = 3 /\ r.comments = <<2>>
           /\ \A r \in findMany(o) : r.comments # <<1>>

\* the nodes listed under p are the stored children of p, each once, and so
\* on below each of them
RECURSIVE NestedByParent(_, _)
NestedByParent(nodes, p) ==
    /\ { nodes[i].id : i \in DOMAIN nodes } = ChildrenOf(p)
    /\ Len(nodes) = Cardinality(ChildrenOf(p))
    /\ \A i \in DOMAIN nodes : NestedByParent(nodes[i].children, nodes[i].id)

\* C19: in the tree the subtree retrieval returns, the children list of every
\* node holds exactly the returned comments whose parentId is that node, so
\* every descendant stands once in the tree, right under its parent.
C19_NestedByParent ==
    Idle => \A id \in Rows : \A r \in findByIdWithChildren(id) :
                NestedByParent(r[1].children, id)

\* C20: a delete asked by the owner inside the window counted from createdAt
\* is accepted whether or not the comment is soft-deleted already; on a
\* soft-deleted comment it leaves isDeleted true and sets deletedAt to now,
\* so the time left to restore it counts from this last delete.
C20_DeleteAgain ==
    [][ (/\ Finishes("delete")
         /\ last'.user = Owner(last'.id[1])
         /\ Age(Target) < W)
        => /\ last'.outcome = "ok"
           /\ TargetAfter = [Target EXCEPT !.isDeleted = TRUE,
                                           !.deletedAt = Some(now)]
           /\ \A t \in now..(now + 2 * W) :
                isRestorable(TargetAfter, t) <=> t - now < W ]_vars

\* C20 witness: the one comment, never edited and never restored, has been
\* deleted twice by its owner, the second time after the instant it was
\* created at; its deletedAt is the instant of the second delete.
C20_Witness ==
    /\ last.op = "delete"
    /\ last.outcome = "ok"
    /\ Len(comments) = 1
    /\ nMut = 2
    /\ ~comments[1].isEdited
    /\ comments[1].restoredAt = Null
    /\ comments[1].isDeleted
    /\ comments[1].createdAt < now
    /\ comments[1].deletedAt = Some(now)

\* the flags of row c agree with its timestamps
FlagsAgree(c) ==
    /\ c.isEdited <=> c.editedAt # Null
    /\ c.isEdited <=> c.originalContent # Null
    /\ c.isDeleted <=> c.deletedAt # Null

\* C21: in every state and for every comment, isEdited is true exactly when
\* editedAt is set and exactly when originalContent is set, isDeleted is true
\* exactly when deletedAt is set, and isEdited never goes back to false.
C21_Flags ==
    [][ /\ \A id \in 1..Len(comments') : FlagsAgree(comments'[id])
        /\ \A id \in Rows : comments[id].isEdited => comments'[id].isEdited ]_vars

\* the comments met by following parentId from id, id first, for at most
\* fuel steps
RECURSIVE ChainFrom(_, _)
ChainFrom(id, fuel) ==
    IF fuel = 0 \/ ~Exists(id) \/ comments[id].parentId = Null THEN <<id>>
    ELSE <<id>> \o ChainFrom(comments[id].parentId[1], fuel - 1)

\* C22: the comments form a forest: every parentId that is not null names a
\* stored comment created before the comment (an earlier row, with no later
\* createdAt), and following parentId from a comment ends at a root after
\* exactly depth steps and meets no comment twice.
C22_Forest ==
    \A id \in Rows :
        LET chain == ChainFrom(id, Len(comments)) IN
        /\ comments[id].parentId # Null =>
                /\ Exists(comments[id].parentId[1])
                /\ comments[id].parentId[1] < id
                /\ comments[comments[id].parentId[1]].createdAt
                        <= comments[id].createdAt
        /\ Exists(chain[Len(chain)])
        /\ comments[chain[Len(chain)]].parentId = Null
        /\ Len(chain) = comments[id].depth + 1
        /\ \A i, j \in DOMAIN chain : i # j => chain[i] # chain[j]

\* C22 witness: three comments in one chain; following parentId from the
\* last one meets its parent and then the root, two steps away.
C22_Witness ==
    \E id \in Rows :
        /\ comments[id].depth = 2
        /\ ChainFrom(id, Len(comments)) =
                <<id, comments[id].parentId[1],
                  comments[comments[id].parentId[1]].parentId[1]>>
        /\ comments[ChainFrom(id, Len(comments))[3]].parentId = Null

\* C23: however edits, deletes and restores of one comment overlap, a comment
\* whose stored isDeleted is true keeps its content, and its isDeleted is
\* cleared only by a restore that succeeds: an edit that passed its checks
\* before a delete neither clears isDeleted nor changes the deleted comment.
C23_DeleteHolds ==
    [][ \A id \in Rows :
            comments[id].isDeleted =>
                /\ comments'[id].content = comments[id].content
                /\ ~comments'[id].isDeleted =>
                        /\ last'.op = "restore"
                        /\ last'.id = Some(id)
                        /\ last'.outcome = "ok" ]_vars

\* C24: however the creation of a reply and a delete of its parent overlap,
\* no comment is stored at a moment when the stored isDeleted of its parent
\* is true, and the childrenCount of a comment is not raised while its stored
\* isDeleted is true.
C24_NoReplyToDeleted ==
    [][ /\ Len(comments') > Len(comments) =>
                LET new == comments'[Len(comments')] IN
                new.parentId # Null => ~comments[new.parentId[1]].isDeleted
        /\ \A id \in Rows :
                comments'[id].childrenCount > comments[id].childrenCount
                    => ~comments[id].isDeleted ]_vars

\* C25: an update, a delete or a restore of a comment leaves the childrenCount
\* of that comment as it is stored, also when replies to the comment are
\* created meanwhile: the row it writes back never puts the count it read in
\* the place of a count raised since.
C25_CountKept ==
    [][ (/\ Idle
         /\ last'.op \in {"update", "delete", "restore"}
         /\ Exists(last'.id[1]))
        => TargetAfter.childrenCount = Target.childrenCount ]_vars

\* C26: no update, delete or restore of a comment succeeds when now is at or
\* after createdAt + 2W: a delete that succeeds stamps a deletedAt before
\* createdAt + W and a restore that succeeds, less than W after that delete,
\* stamps a restoredAt before createdAt + 2W; and a comment restored after
\* createdAt + W is never deleted again.
C26_Settles ==
    [][ /\ (/\ Idle
            /\ last'.op \in {"update", "delete", "restore"}
            /\ last'.outcome = "ok")
           => /\ Age(Target) < 2 * W
              /\ last'.op = "delete" =>
                    /\ TargetAfter.deletedAt # Null
                    /\ TargetAfter.deletedAt[1] < Target.createdAt + W
              /\ last'.op = "restore" =>
                    /\ TargetAfter.restoredAt # Null
                    /\ TargetAfter.restoredAt[1] < Target.createdAt + 2 * W
        /\ \A id \in Rows :
            (/\ ~comments[id].isDeleted
             /\ comments[id].restoredAt # Null
             /\ comments[id].restoredAt[1] > comments[id].createdAt + W)
            => ~comments'[id].isDeleted ]_vars
====
